---------------------------- MODULE Spec2Model ----------------------------
(***************************************************************************)
(* Model of pages/build_dashboard_from_plan_actual.py: the pipeline of     *)
(* main() (read, schema check, field normalization, imputation, daily and  *)
(* weekly aggregation, write) and the pure helpers it calls.               *)
(*                                                                         *)
(* Representation.                                                         *)
(*   - A text is a sequence of one-character strings.  A CSV cell is a     *)
(*     text; the empty text is an empty cell, which pandas reads as NaN.   *)
(*   - A number is a record [num, den, exp] standing for                   *)
(*     (num / den) * 10^exp, kept in a unique normal form, so that decimal *)
(*     literals, exponents and m + s/60 are all exact.  den = 0 encodes    *)
(*     the IEEE specials: 0/0 is NaN (pandas' missing value), 1/0 and -1/0 *)
(*     are the infinities.                                                 *)
(*   - pandas semantics are those of pandas 1.x / 2.x (object columns,     *)
(*     str(NaN) = "nan").                                                  *)
(***************************************************************************)
EXTENDS Integers, Sequences, FiniteSets, TLC

----------------------------------------------------------------------------
(* Numbers *)

Abs(n) == IF n < 0 THEN -n ELSE n

Min(a, b) == IF a <= b THEN a ELSE b

RECURSIVE GCD(_, _)
GCD(a, b) == IF b = 0 THEN a ELSE GCD(b, a % b)

RECURSIVE Pow10(_)
Pow10(k) == IF k <= 0 THEN 1 ELSE 10 * Pow10(k - 1)

NaN == [num |-> 0, den |-> 0, exp |-> 0]

PosInf == [num |-> 1, den |-> 0, exp |-> 0]

NegInf == [num |-> -1, den |-> 0, exp |-> 0]

\* Moves the factors 2 and 5 of a reduced fraction into the decimal exponent:
\* on return den is coprime to 10 and num is not a multiple of 10.
RECURSIVE Canon(_, _, _)
Canon(n, d, e) ==
    IF n = 0 THEN [num |-> 0, den |-> 1, exp |-> 0]
    ELSE IF n % 10 = 0 THEN Canon(n \div 10, d, e + 1)
    ELSE IF d % 10 = 0 THEN Canon(n, d \div 10, e - 1)
    ELSE IF d % 2 = 0 THEN Canon(n * 5, d \div 2, e - 1)
    ELSE IF d % 5 = 0 THEN Canon(n * 2, d \div 5, e - 1)
    ELSE [num |-> n, den |-> d, exp |-> e]

\* The finite number (n / d) * 10^e, d > 0, in normal form.
Num(n, d, e) ==
    LET g == GCD(Abs(n), d)
    IN  IF n = 0 THEN Canon(0, 1, 0) ELSE Canon(n \div g, d \div g, e)

Int2Num(n) == Num(n, 1, 0)

isna(v) == v = NaN

IsFinite(v) == v.den > 0

Neg(v) == [num |-> -v.num, den |-> v.den, exp |-> v.exp]

\* a < b, a + b and a / 2 on finite numbers.
Less(a, b) ==
    LET m == Min(a.exp, b.exp)
    IN  a.num * Pow10(a.exp - m) * b.den < b.num * Pow10(b.exp - m) * a.den

Add(a, b) ==
    LET m == Min(a.exp, b.exp)
    IN  Num(a.num * Pow10(a.exp - m) * b.den + b.num * Pow10(b.exp - m) * a.den,
            a.den * b.den, m)

Half(a) == Num(a.num, a.den * 2, a.exp)

DivInt(a, k) == Num(a.num, a.den * k, a.exp)

----------------------------------------------------------------------------
(* Texts *)

Digit == {"0", "1", "2", "3", "4", "5", "6", "7", "8", "9"}

DigitVal(c) ==
    CASE c = "0" -> 0 [] c = "1" -> 1 [] c = "2" -> 2 [] c = "3" -> 3
      [] c = "4" -> 4 [] c = "5" -> 5 [] c = "6" -> 6 [] c = "7" -> 7
      [] c = "8" -> 8 [] c = "9" -> 9

DigitChar(n) ==
    CASE n = 0 -> "0" [] n = 1 -> "1" [] n = 2 -> "2" [] n = 3 -> "3"
      [] n = 4 -> "4" [] n = 5 -> "5" [] n = 6 -> "6" [] n = 7 -> "7"
      [] n = 8 -> "8" [] n = 9 -> "9"

Whitespace == {" "}

LowerChar(c) ==
    CASE c = "A" -> "a" [] c = "E" -> "e" [] c = "F" -> "f" [] c = "I" -> "i"
      [] c = "L" -> "l" [] c = "N" -> "n" [] c = "O" -> "o" [] c = "S" -> "s"
      [] c = "T" -> "t" [] c = "Y" -> "y" [] OTHER -> c

\* str.lower()
lower(s) == [i \in 1..Len(s) |-> LowerChar(s[i])]

\* str.strip()
RECURSIVE lstrip(_)
lstrip(s) == IF s # <<>> /\ Head(s) \in Whitespace THEN lstrip(Tail(s)) ELSE s

RECURSIVE rstrip(_)
rstrip(s) ==
    IF s # <<>> /\ s[Len(s)] \in Whitespace
    THEN rstrip(SubSeq(s, 1, Len(s) - 1)) ELSE s

strip(s) == rstrip(lstrip(s))

\* Positions of character c in s.
Find(s, c) == {i \in 1..Len(s) : s[i] = c}

\* The text without its underscores.
RECURSIVE Drop_(_)
Drop_(s) ==
    IF s = <<>> THEN <<>>
    ELSE IF Head(s) = "_" THEN Drop_(Tail(s))
    ELSE <<Head(s)>> \o Drop_(Tail(s))

\* int() of a text of digits.
RECURSIVE DigitsVal(_)
DigitsVal(s) ==
    IF s = <<>> THEN 0
    ELSE 10 * DigitsVal(SubSeq(s, 1, Len(s) - 1)) + DigitVal(s[Len(s)])

\* str() of a natural number.
RECURSIVE NatStr(_)
NatStr(n) ==
    IF n < 10 THEN <<DigitChar(n)>>
    ELSE NatStr(n \div 10) \o <<DigitChar(n % 10)>>


----------------------------------------------------------------------------
(* float(s): Python's conversion of a text to a float *)

IsDigitPart(s) ==
    /\ s # <<>>
    /\ \A i \in 1..Len(s) : s[i] \in Digit \cup {"_"}
    /\ s[1] \in Digit /\ s[Len(s)] \in Digit
    /\ \A i \in 1..(Len(s) - 1) : ~(s[i] = "_" /\ s[i + 1] = "_")

HasSign(s) == s # <<>> /\ Head(s) \in {"+", "-"}

Unsigned(s) == IF HasSign(s) THEN Tail(s) ELSE s

Signed(s, v) == IF HasSign(s) /\ Head(s) = "-" THEN Neg(v) ELSE v

\* The mantissa int[.frac] or .frac, and its value as digits * 10^-Len(frac).
MantissaOk(m) ==
    LET dots == Find(m, ".")
    IN  IF dots = {} THEN IsDigitPart(m)
        ELSE /\ Cardinality(dots) = 1
             /\ LET p == CHOOSE i \in dots : TRUE
                    ip == SubSeq(m, 1, p - 1)
                    fp == SubSeq(m, p + 1, Len(m))
                IN  /\ ip = <<>> \/ IsDigitPart(ip)
                    /\ fp = <<>> \/ IsDigitPart(fp)
                    /\ ip # <<>> \/ fp # <<>>

MantissaDigits(m) == DigitsVal(Drop_(SelectSeq(m, LAMBDA c : c # ".")))

MantissaScale(m) ==
    LET dots == Find(m, ".")
    IN  IF dots = {} THEN 0
        ELSE Len(Drop_(SubSeq(m, (CHOOSE i \in dots : TRUE) + 1, Len(m))))

ExponentOk(x) == IsDigitPart(Unsigned(x))

ExponentVal(x) ==
    LET n == DigitsVal(Drop_(Unsigned(x)))
    IN  IF HasSign(x) /\ Head(x) = "-" THEN -n ELSE n

\* A decimal too large for a double becomes an infinity, one too small zero.
RECURSIVE NumDigits(_)
NumDigits(n) == IF n < 10 THEN 1 ELSE 1 + NumDigits(n \div 10)

ToDouble(v) ==
    LET mag == v.exp + NumDigits(Abs(v.num))
    IN  IF v.num = 0 THEN v
        ELSE IF mag > 309 THEN (IF v.num < 0 THEN NegInf ELSE PosInf)
        ELSE IF mag < -330 THEN Int2Num(0)
        ELSE v

Raised == [raised |-> TRUE, value |-> NaN]

Returned(v) == [raised |-> FALSE, value |-> v]

float(s) ==
    LET t == strip(s)
        u == Unsigned(t)
        w == lower(u)
        es == Find(w, "e")
    IN  IF w \in {<<"i", "n", "f">>, <<"i", "n", "f", "i", "n", "i", "t", "y">>}
        THEN Returned(Signed(t, PosInf))
        ELSE IF w = <<"n", "a", "n">> THEN Returned(NaN)
        ELSE IF es = {}
        THEN IF MantissaOk(u)
             THEN Returned(Signed(t, Num(MantissaDigits(u), 1, -MantissaScale(u))))
             ELSE Raised
        ELSE IF Cardinality(es) # 1 THEN Raised
        ELSE LET p == CHOOSE i \in es : TRUE
                 m == SubSeq(u, 1, p - 1)
                 x == SubSeq(u, p + 1, Len(u))
             IN  IF MantissaOk(m) /\ ExponentOk(x)
                 THEN Returned(Signed(t, ToDouble(
                          Num(MantissaDigits(m), 1, ExponentVal(x) - MantissaScale(m)))))
                 ELSE Raised

----------------------------------------------------------------------------
(* parse_pace_mmss_to_minutes *)

\* A cell that read_csv left as NaN is the empty text.
isna_cell(x) == x = <<>>

IsDigits(s, lo, hi) ==
    /\ Len(s) >= lo /\ Len(s) <= hi
    /\ \A i \in 1..Len(s) : s[i] \in Digit

\* re.match(r'^\s*(\d{1,2})\s*:\s*(\d{1,2})\s*$', s): the two groups, or <<>>.
re_match_mmss(s) ==
    LET cs == Find(s, ":")
    IN  IF Cardinality(cs) # 1 THEN <<>>
        ELSE LET p == CHOOSE i \in cs : TRUE
                 g1 == strip(SubSeq(s, 1, p - 1))
                 g2 == strip(SubSeq(s, p + 1, Len(s)))
             IN  IF IsDigits(g1, 1, 2) /\ IsDigits(g2, 1, 2)
                 THEN <<g1, g2>> ELSE <<>>

\* Variant that takes 60 for a number of seconds.
parse_pace_le60(x) ==
    IF isna_cell(x) THEN NaN
    ELSE LET s == strip(x)
             f == float(s)
             m == re_match_mmss(s)
         IN  IF ~f.raised THEN f.value
             ELSE IF m # <<>>
             THEN LET mm == DigitsVal(m[1])
                      ss == DigitsVal(m[2])
                  IN  IF 0 <= ss /\ ss <= 60
                      THEN Add(Int2Num(mm), DivInt(Int2Num(ss), 60))
                      ELSE NaN
             ELSE NaN

\* Lines 23-32.
parse_pace_mmss_to_minutes(x) ==
    IF isna_cell(x) THEN NaN
    ELSE LET s == strip(x)
             f == float(s)
             m == re_match_mmss(s)
         IN  IF ~f.raised THEN f.value
             ELSE IF m # <<>>
             THEN LET mm == DigitsVal(m[1])
                      ss == DigitsVal(m[2])
                  IN  IF 0 <= ss /\ ss < 60
                      THEN Add(Int2Num(mm), DivInt(Int2Num(ss), 60))
                      ELSE NaN
             ELSE NaN

----------------------------------------------------------------------------
(* Timestamps: [day, secs], day the proleptic Gregorian ordinal (0001-01-01 *)
(* is day 1, a Monday), secs the seconds since midnight.  NaT is day 0.     *)

NaT == [day |-> 0, secs |-> 0]

IsLeap(y) == y % 4 = 0 /\ (y % 100 # 0 \/ y % 400 = 0)

DaysInMonth(y, m) ==
    IF m = 2 THEN (IF IsLeap(y) THEN 29 ELSE 28)
    ELSE IF m \in {4, 6, 9, 11} THEN 30 ELSE 31

DaysBeforeYear(y) ==
    (y - 1) * 365 + (y - 1) \div 4 - (y - 1) \div 100 + (y - 1) \div 400

RECURSIVE DaysBeforeMonth(_, _)
DaysBeforeMonth(y, m) ==
    IF m <= 1 THEN 0 ELSE DaysBeforeMonth(y, m - 1) + DaysInMonth(y, m - 1)

Ordinal(y, m, d) == DaysBeforeYear(y) + DaysBeforeMonth(y, m) + d

\* Timestamp.weekday(): 0 for Monday .. 6 for Sunday.
weekday(ts) == (ts.day + 6) % 7

\* pd.to_datetime(text) on the ISO forms YYYY-MM-DD and YYYY-MM-DD HH:MM;
\* any other text of the model's inputs does not parse (the call raises).
to_datetime(s) ==
    LET dateOk ==
            /\ Len(s) \in {10, 16}
            /\ s[5] = "-" /\ s[8] = "-"
            /\ \A i \in {1, 2, 3, 4, 6, 7, 9, 10} : s[i] \in Digit
        timeOk ==
            Len(s) = 16 =>
                /\ s[11] \in {" ", "T"} /\ s[14] = ":"
                /\ \A i \in {12, 13, 15, 16} : s[i] \in Digit
        y == DigitsVal(SubSeq(s, 1, 4))
        m == DigitsVal(SubSeq(s, 6, 7))
        d == DigitsVal(SubSeq(s, 9, 10))
        hh == IF Len(s) = 16 THEN DigitsVal(SubSeq(s, 12, 13)) ELSE 0
        mi == IF Len(s) = 16 THEN DigitsVal(SubSeq(s, 15, 16)) ELSE 0
    IN  IF /\ dateOk /\ timeOk
           /\ y >= 1 /\ m \in 1..12 /\ d >= 1 /\ d <= DaysInMonth(y, m)
           /\ hh < 24 /\ mi < 60
        THEN [raised |-> FALSE,
              value |-> [day |-> Ordinal(y, m, d), secs |-> 3600 * hh + 60 * mi]]
        ELSE [raised |-> TRUE, value |-> NaT]

\* Lines 18-21.
parse_date(x) ==
    IF isna_cell(x) THEN NaT
    ELSE LET r == to_datetime(strip(x))
         IN  IF r.raised THEN NaT ELSE r.value

\* Variant whose weeks start on Sunday.
monday_of_week_sunday(ts) ==
    IF ts = NaT THEN NaT
    ELSE [day |-> ts.day - ((ts.day + 7) % 7), secs |-> 0]

\* Lines 34-36.
monday_of_week(ts) ==
    IF ts = NaT THEN NaT
    ELSE [day |-> ts.day - weekday(ts), secs |-> 0]

\* Zero-padded decimal text of n, at least w characters wide.
RECURSIVE Pad(_, _)
Pad(s, w) == IF Len(s) >= w THEN s ELSE Pad(<<"0">> \o s, w)

\* Series.dt.strftime("%Y-%m-%d"); NaT gives a missing value.
strftime(ts) ==
    IF ts = NaT THEN <<>>
    ELSE LET y == CHOOSE yy \in (ts.day \div 366)..(ts.day \div 365 + 1) :
                      DaysBeforeYear(yy) < ts.day /\ ts.day <= DaysBeforeYear(yy + 1)
             r == ts.day - DaysBeforeYear(y)
             m == CHOOSE mm \in 1..12 :
                      /\ DaysBeforeMonth(y, mm) < r
                      /\ r <= DaysBeforeMonth(y, mm) + DaysInMonth(y, mm)
             d == r - DaysBeforeMonth(y, m)
         IN  Pad(NatStr(y), 4) \o <<"-">> \o Pad(NatStr(m), 2) \o <<"-">>
                 \o Pad(NatStr(d), 2)

----------------------------------------------------------------------------
(* pandas helpers *)

\* The texts read_csv takes for a missing value (its default na_values, as far
\* as the model's alphabet spells them); a missing cell is the empty text.
NaTexts == {<<>>, <<"n", "a", "n">>, <<"N", "a", "N">>, <<"N", "A">>}

read_cell(c) == IF c \in NaTexts THEN <<>> ELSE c

\* str(x) of a cell: a missing cell is the float NaN, whose text is "nan".
str(x) == IF isna_cell(x) THEN <<"n", "a", "n">> ELSE x

\* pd.to_numeric(column, errors="coerce") on one cell.
to_numeric(x) ==
    IF isna_cell(x) THEN NaN
    ELSE LET f == float(x) IN IF f.raised THEN NaN ELSE f.value

\* The values of a sequence that are not NaN, in order.
dropna(s) == SelectSeq(s, LAMBDA v : ~isna(v))

RECURSIVE Insert(_, _)
Insert(v, s) ==
    IF s = <<>> THEN <<v>>
    ELSE IF Less(v, Head(s)) THEN <<v>> \o s
    ELSE <<Head(s)>> \o Insert(v, Tail(s))

RECURSIVE Sorted(_)
Sorted(s) == IF s = <<>> THEN <<>> ELSE Insert(Head(s), Sorted(Tail(s)))

RECURSIVE Sum(_)
Sum(s) == IF s = <<>> THEN Int2Num(0) ELSE Add(Head(s), Sum(Tail(s)))

\* Variant that takes the lower middle value of an even count.
median_low(s) ==
    LET v == Sorted(dropna(s))
        n == Len(v)
    IN  IF n = 0 THEN NaN ELSE v[(n + 1) \div 2]

\* Series.median() / np.nanmedian: NaN skipped, NaN when nothing is left, the
\* mean of the two middle values for an even count.
median(s) ==
    LET v == Sorted(dropna(s))
        n == Len(v)
    IN  IF n = 0 THEN NaN
        ELSE IF n % 2 = 1 THEN v[(n + 1) \div 2]
        ELSE Half(Add(v[n \div 2], v[n \div 2 + 1]))

\* Series.mean(): NaN skipped, NaN when nothing is left.
mean(s) ==
    LET v == dropna(s)
    IN  IF v = <<>> THEN NaN ELSE DivInt(Sum(v), Len(v))

\* Variant that has no sum for a series without a value (min_count=1).
sum_min_count(s) == IF dropna(s) = <<>> THEN NaN ELSE Sum(dropna(s))

\* Series.sum(): NaN skipped, 0 when nothing is left.
sum(s) == Sum(dropna(s))

\* Series.fillna(other): other is a series of the same length.
fillna(s, other) == [i \in 1..Len(s) |-> IF isna(s[i]) THEN other[i] ELSE s[i]]

\* df[col]
Column(df, col) == [i \in 1..Len(df) |-> df[i][col]]

\* df.groupby(by)[col].transform('median')
group_median(df, col, by) ==
    [i \in 1..Len(df) |->
        median(Column(SelectSeq(df, LAMBDA r : r[by] = df[i][by]), col))]

----------------------------------------------------------------------------
(* impute_with_medians *)

\* Variant without the global tier (lines 41-43 left out).
impute_group_only(df, col, by) ==
    fillna(Column(df, col), group_median(df, col, by))

\* Variant that fills with 0 what the two medians leave missing.
impute_default_zero(df, col, by) ==
    LET s1 == fillna(Column(df, col), group_median(df, col, by))
        gmed == IF isna(median(s1)) THEN Int2Num(0) ELSE median(s1)
    IN  fillna(s1, [i \in 1..Len(s1) |-> gmed])

\* Lines 38-44: group medians first, then the median of the column as the
\* group step left it (np.nanmedian(s) reads s after line 40).
impute_with_medians(df, col, by) ==
    LET s0 == Column(df, col)
        s1 == fillna(s0, group_median(df, col, by))
        gmed == median(s1)
    IN  IF \E i \in 1..Len(s1) : isna(s1[i])
        THEN IF ~isna(gmed) THEN fillna(s1, [i \in 1..Len(s1) |-> gmed]) ELSE s1
        ELSE s1

\* Variant that also puts 0 where a row has no distance.
Assign_zero_distance(df, col, s) ==
    [i \in 1..Len(df) |->
        [df[i] EXCEPT ![col] = s[i],
                      !["dist_km"] = IF isna(@) THEN Int2Num(0) ELSE @]]

\* df[col] = s
Assign(df, col, s) == [i \in 1..Len(df) |-> [df[i] EXCEPT ![col] = s[i]]]

----------------------------------------------------------------------------
(* main(): state *)

VARIABLES
    pc,      \* the stage main() is about to run, "done" or "failed"
    src,     \* the source file: its header and its rows of cell texts
    raw,     \* the frame detect_and_read_csv returned
    df,      \* the typed frame (lines 303-321), one record per row
    norm,    \* history: df as the field normalization left it (line 312)
    err,     \* the exception main() raised, if any
    daily,   \* the daily table (lines 323-324)
    weekly,  \* the weekly table (lines 325-329)
    out,     \* the artifacts written (line 332)
    enc,     \* detect_and_read_csv: the number of the attempt about to be made
    tried,   \* history: the attempts detect_and_read_csv has made, in order
    px,      \* parse_pace_mmss_to_minutes: the argument
    pret,    \* parse_pace_mmss_to_minutes: the value returned
    ppc,     \* parse_pace_mmss_to_minutes: "call", "ret" or "idle"
    pform    \* history: how the argument was built ([form, m, s])

vars ==
    <<pc, src, raw, df, norm, err, daily, weekly, out, enc, tried,
      px, pret, ppc, pform>>

mainVars == <<pc, src, raw, df, norm, err, daily, weekly, out, enc, tried>>

paceVars == <<px, pret, ppc, pform>>

expected ==
    <<"date", "type", "distance_km", "avg_pace", "avg_hr_bpm",
      "avg_cadence_spm", "rpe", "notes">>

Txt_easy == <<"e", "a", "s", "y">>

Txt_long == <<"l", "o", "n", "g">>

Txt_tempo == <<"t", "e", "m", "p", "o">>

Txt_interval == <<"i", "n", "t", "e", "r", "v", "a", "l">>

Txt_race == <<"r", "a", "c", "e">>

Txt_test == <<"t", "e", "s", "t">>

Txt_rest == <<"r", "e", "s", "t">>

Txt_nan == <<"n", "a", "n">>

type_rpe_default ==
    (Txt_easy :> 5) @@ (Txt_long :> 6) @@ (Txt_tempo :> 7) @@ (Txt_interval :> 8)
        @@ (Txt_race :> 9) @@ (Txt_test :> 6) @@ (Txt_rest :> 2)

\* Series.map(type_rpe_default) on one value.
map_default(ty) ==
    IF ty \in DOMAIN type_rpe_default THEN Int2Num(type_rpe_default[ty]) ELSE NaN

\* Variant that tries the legacy encodings before UTF-8.
encodings_legacy_first == <<"cp949", "euc-kr", "ISO-8859-1", "utf-8-sig">>

\* Line 13: the encodings of the loop, in its order.
encodings == <<"utf-8-sig", "cp949", "euc-kr", "ISO-8859-1">>

\* Attempt k of detect_and_read_csv: read_csv with the k-th encoding (line
\* 14), and after the loop read_csv without one (line 16).
Candidate(k) == IF k <= Len(encodings) THEN encodings[k] ELSE "default"

Candidates == {Candidate(k) : k \in 1..(Len(encodings) + 1)}

----------------------------------------------------------------------------
(* main(): the inputs of the model *)

\* Rows per file: where the imputed columns vary, where the two-tier fallback
\* is followed through, and where dates and distances vary.
MaxRows == 3

MaxFallbackRows == 4

MaxAggRows == 3

\* Rows per file where dates, numbers and notes are good or bad, and where
\* every field the Imputer must leave alone varies.
MaxRetainRows == 3

MaxFrameRows == 2

\* Longest free text handed to parse_pace_mmss_to_minutes.
MaxTextLen == 4

\* Largest minutes and seconds written as "m:s".
MaxMinute == 59

MaxSecond == 99

TypeCells == {<<>>, <<" ", "E", "a", "s", "y">>, <<"x">>}

PaceCells == {<<>>, <<"4", ":", "3", "0">>, <<"9">>}

HrCells == {<<>>, <<"1", "5", "0">>}

CadenceCells == {<<>>, <<"1", "7", "0">>}

RpeCells == {<<>>, <<"3">>, <<"8">>}

\* A Monday, the Sunday of that week (with a time of day), the next Monday, an
\* impossible date and an empty cell.
DateCells == {<<>>, <<"2", "0", "2", "4", "-", "0", "2", "-", "3", "0">>, <<"2", "0", "2", "4", "-", "0", "1", "-", "0", "1">>, <<"2", "0", "2", "4", "-", "0", "1", "-", "0", "7", " ", "1", "0", ":", "3", "0">>, <<"2", "0", "2", "4", "-", "0", "1", "-", "0", "8">>}

DistCells == {<<>>, <<"2", ".", "5">>}

\* An empty cell, an impossible date and two Mondays a week apart.
RetainDateCells == {<<>>, <<"2", "0", "2", "4", "-", "0", "2", "-", "3", "0">>, <<"2", "0", "2", "4", "-", "0", "1", "-", "0", "1">>, <<"2", "0", "2", "4", "-", "0", "1", "-", "0", "8">>}

\* Distance, pace and notes of a row: two unreadable numbers and no notes, or
\* two good numbers and notes.
RetainCells == {<<<<"a", "b", "c">>, <<"5", ":", "7", "5">>, <<>>>>, <<<<"2", ".", "5">>, <<"9">>, <<"o", "k">>>>}

FrameTypeCells == {<<" ", "E", "a", "s", "y">>, <<"x">>}

FrameDistCells == {<<>>, <<"0">>, <<"2", ".", "5">>}

\* Pace and rpe of a row: neither, a pace, or an rpe.
FramePaceRpeCells == {<<<<>>, <<>>>>, <<<<"9">>, <<>>>>, <<<<>>, <<"3">>>>}

\* The date of row i where dates do not vary: later rows are earlier days.
RowDate(i) == <<"2", "0", "2", "4", "-", "0", "1", "-", "1">> \o <<DigitChar(9 - i)>>

BaseRow(i) ==
    [date |-> RowDate(i), type |-> Txt_easy, distance_km |-> <<"5">>,
     avg_pace |-> <<>>, avg_hr_bpm |-> <<>>, avg_cadence_spm |-> <<>>,
     rpe |-> <<>>, notes |-> <<>>]

ColumnCells(col) ==
    CASE col = "avg_pace" -> PaceCells
      [] col = "avg_hr_bpm" -> HrCells
      [] col = "avg_cadence_spm" -> CadenceCells
      [] col = "rpe" -> RpeCells

Range(s) == {s[i] : i \in 1..Len(s)}

FullHeader == Range(expected)

\* A file of n rows that vary in type and in the cells of column col.
ColumnFile(f, col, n) ==
    \E ty \in [1..n -> TypeCells], cell \in [1..n -> ColumnCells(col)] :
        f = [columns |-> FullHeader, decodes |-> Candidates,
             rows |-> [i \in 1..n |->
                         [BaseRow(i) EXCEPT !.type = ty[i], ![col] = cell[i]]]]

\* The file's rows vary in type and in one imputed column.
ImputeFile(f) ==
    \E col \in {"avg_pace", "avg_hr_bpm", "avg_cadence_spm", "rpe"} :
        \E n \in 0..MaxRows : ColumnFile(f, col, n)

\* The same with enough rows for a group fill and a global fill to meet.
FallbackFile(f) ==
    \E col \in {"avg_pace", "rpe"} :
        \E n \in 0..MaxFallbackRows : ColumnFile(f, col, n)

\* The file's rows vary in date and distance.
AggFile(f) ==
    \E n \in 0..MaxAggRows :
        \E dt \in [1..n -> DateCells], ds \in [1..n -> DistCells] :
            f = [columns |-> FullHeader, decodes |-> Candidates,
                 rows |-> [i \in 1..n |->
                             [BaseRow(i) EXCEPT !.date = dt[i], !.distance_km = ds[i]]]]

\* The file's rows vary in date and in distance, pace and notes together.
RetainFile(f) ==
    \E n \in 0..MaxRetainRows :
        \E dt \in [1..n -> RetainDateCells], nb \in [1..n -> RetainCells] :
            f = [columns |-> FullHeader, decodes |-> Candidates,
                 rows |-> [i \in 1..n |->
                             [BaseRow(i) EXCEPT !.date = dt[i],
                                                !.distance_km = nb[i][1],
                                                !.avg_pace = nb[i][2],
                                                !.notes = nb[i][3]]]]

\* The file's rows vary in type, in distance, and in pace and rpe.
FrameFile(f) ==
    \E n \in 0..MaxFrameRows :
        \E ty \in [1..n -> FrameTypeCells], ds \in [1..n -> FrameDistCells],
           pr \in [1..n -> FramePaceRpeCells] :
            f = [columns |-> FullHeader, decodes |-> Candidates,
                 rows |-> [i \in 1..n |->
                             [BaseRow(i) EXCEPT !.type = ty[i],
                                                !.distance_km = ds[i],
                                                !.avg_pace = pr[i][1],
                                                !.rpe = pr[i][2]]]]

\* The attempts that succeed vary: any of the four encodings and the read
\* without one may raise.
IngestFile(f) ==
    \E ok \in SUBSET Candidates, n \in 0..1 :
        f = [columns |-> FullHeader, decodes |-> ok,
             rows |-> [i \in 1..n |-> BaseRow(i)]]

\* The file's header varies: any of the eight columns may be absent and a
\* ninth one present.
SchemaFile(f) ==
    \E h \in SUBSET (FullHeader \cup {"extra"}), n \in 0..1 :
        f = [columns |-> h, decodes |-> Candidates,
             rows |-> [i \in 1..n |-> BaseRow(i)]]

----------------------------------------------------------------------------
(* main(): the stages *)

EmptyFrame == [columns |-> {}, rows |-> <<>>]

\* No file: parse_pace_mmss_to_minutes reads none.
NoFile == [columns |-> {}, decodes |-> {}, rows |-> <<>>]

PaceIdle ==
    /\ px = <<>> /\ pret = NaN /\ ppc = "idle"
    /\ pform = [form |-> "none", m |-> 0, s |-> 0]

MainStart ==
    /\ pc = "read"
    /\ raw = EmptyFrame
    /\ df = <<>> /\ norm = <<>> /\ err = <<>>
    /\ daily = <<>> /\ weekly = <<>> /\ out = <<>>
    /\ enc = 1 /\ tried = <<>>
    /\ PaceIdle

InitImpute == MainStart /\ ImputeFile(src)

InitFallback == MainStart /\ FallbackFile(src)

InitAgg == MainStart /\ AggFile(src)

InitSchema == MainStart /\ SchemaFile(src)

InitRetain == MainStart /\ RetainFile(src)

InitFrame == MainStart /\ FrameFile(src)

InitIngest == MainStart /\ IngestFile(src)

Init ==
    /\ MainStart
    /\ \/ ImputeFile(src)
       \/ AggFile(src)
       \/ SchemaFile(src)
       \/ RetainFile(src)
       \/ FrameFile(src)
       \/ IngestFile(src)

\* pd.read_csv: the header as it is, every cell with the missing-value texts
\* turned into NaN.
read_csv(file) ==
    [columns |-> file.columns,
     rows |-> [i \in 1..Len(file.rows) |->
                 [c \in DOMAIN file.rows[i] |-> read_cell(file.rows[i][c])]]]

\* Lines 12-16, called at line 298, one attempt per step.  An attempt that
\* pd.read_csv survives returns its frame; one that raises inside the loop goes
\* on to the next encoding (except Exception: continue); the exception of the
\* read after the loop is not caught and ends main().
Ingest ==
    /\ pc = "read"
    /\ tried' = Append(tried, Candidate(enc))
    /\ IF Candidate(enc) \in src.decodes
       THEN /\ raw' = read_csv(src)
            /\ pc' = "check"
            /\ UNCHANGED <<enc, err>>
       ELSE IF enc <= Len(encodings)
       THEN /\ enc' = enc + 1
            /\ UNCHANGED <<pc, raw, err>>
       ELSE /\ err' = <<[type |-> "Exception", miss |-> <<>>]>>
            /\ pc' = "failed"
            /\ UNCHANGED <<enc, raw>>
    /\ UNCHANGED <<src, df, norm, daily, weekly, out, paceVars>>

\* Variant that reports the first missing column only.
MissingColumnsAny(frame) ==
    LET m == SelectSeq(expected, LAMBDA c : c \notin frame.columns)
    IN  IF m = <<>> THEN <<>> ELSE <<Head(m)>>

\* Line 300: miss = [c for c in expected if c not in df.columns]
MissingColumns(frame) == SelectSeq(expected, LAMBDA c : c \notin frame.columns)

\* Variant that also rejects a frame without rows.
CheckSchemaRows ==
    /\ pc = "check"
    /\ LET miss == MissingColumns(raw)
       IN  IF miss # <<>> \/ raw.rows = <<>>
           THEN /\ err' = <<[type |-> "ValueError", miss |-> miss]>>
                /\ pc' = "failed"
           ELSE /\ err' = err
                /\ pc' = "normalize"
    /\ UNCHANGED <<src, raw, df, norm, daily, weekly, out, enc, tried, paceVars>>

\* Lines 299-301: the schema check; raises ValueError(f"Missing columns: {miss}").
CheckSchema ==
    /\ pc = "check"
    /\ LET miss == MissingColumns(raw)
       IN  IF miss # <<>>
           THEN /\ err' = <<[type |-> "ValueError", miss |-> miss]>>
                /\ pc' = "failed"
           ELSE /\ err' = err
                /\ pc' = "normalize"
    /\ UNCHANGED <<src, raw, df, norm, daily, weekly, out, enc, tried, paceVars>>

TsLess(a, b) == a.day < b.day \/ (a.day = b.day /\ a.secs < b.secs)

\* df.sort_values("date"): the orders it may return.  Rows with NaT go last in
\* their input order; the default sort is not stable, so rows with equal
\* dates come in any order.
sort_values(dates) ==
    {p \in Permutations(1..Len(dates)) :
        \A i, j \in 1..Len(dates) :
            i < j =>
                /\ dates[p[i]] = NaT => (dates[p[j]] = NaT /\ p[i] < p[j])
                /\ (dates[p[i]] # NaT /\ dates[p[j]] # NaT)
                       => ~TsLess(dates[p[j]], dates[p[i]])}

\* Line 305: df["type"].astype(str).str.strip().str.lower()
normalize_type(x) == lower(strip(str(x)))

\* Lines 303-312 on one row.
NormalizeRow(r) ==
    LET d == parse_date(r.date)
    IN  [date |-> d,
         type |-> normalize_type(r.type),
         dist_km |-> to_numeric(r.distance_km),
         pace_minpkm |-> parse_pace_mmss_to_minutes(r.avg_pace),
         hr_avg |-> to_numeric(r.avg_hr_bpm),
         cadence_spm |-> to_numeric(r.avg_cadence_spm),
         rpe |-> to_numeric(r.rpe),
         notes |-> str(r.notes),
         week |-> monday_of_week(d)]

\* Lines 303-312: parse the dates, sort by date, normalize every column.
Normalize ==
    /\ pc = "normalize"
    /\ \E p \in sort_values([i \in 1..Len(raw.rows) |-> parse_date(raw.rows[i].date)]) :
           df' = [i \in 1..Len(raw.rows) |-> NormalizeRow(raw.rows[p[i]])]
    /\ norm' = df'
    /\ pc' = "impute_pace"
    /\ UNCHANGED <<src, raw, err, daily, weekly, out, enc, tried, paceVars>>

\* Line 315
ImputePace ==
    /\ pc = "impute_pace"
    /\ df' = Assign(df, "pace_minpkm", impute_with_medians(df, "pace_minpkm", "type"))
    /\ pc' = "impute_hr"
    /\ UNCHANGED <<src, raw, norm, err, daily, weekly, out, enc, tried, paceVars>>

\* Line 316
ImputeHr ==
    /\ pc = "impute_hr"
    /\ df' = Assign(df, "hr_avg", impute_with_medians(df, "hr_avg", "type"))
    /\ pc' = "impute_cadence"
    /\ UNCHANGED <<src, raw, norm, err, daily, weekly, out, enc, tried, paceVars>>

\* Line 317
ImputeCadence ==
    /\ pc = "impute_cadence"
    /\ df' = Assign(df, "cadence_spm", impute_with_medians(df, "cadence_spm", "type"))
    /\ pc' = "impute_rpe"
    /\ UNCHANGED <<src, raw, norm, err, daily, weekly, out, enc, tried, paceVars>>

\* Variant that gives every row of a table type the table's value.
rpe_defaults_always(frame) ==
    Assign(frame, "rpe", [i \in 1..Len(frame) |->
        IF frame[i].type \in DOMAIN type_rpe_default
        THEN map_default(frame[i].type) ELSE frame[i].rpe])

\* Lines 319-320: miss = df["rpe"].isna();
\* df.loc[miss, "rpe"] = df.loc[miss, "type"].map(type_rpe_default)
rpe_defaults(frame) ==
    Assign(frame, "rpe", [i \in 1..Len(frame) |->
        IF isna(frame[i].rpe) THEN map_default(frame[i].type) ELSE frame[i].rpe])

\* Lines 318-321
ImputeRpe ==
    /\ pc = "impute_rpe"
    /\ LET d1 == rpe_defaults(df)
       IN  df' = Assign(d1, "rpe", impute_with_medians(d1, "rpe", "type"))
    /\ pc' = "aggregate"
    /\ UNCHANGED <<src, raw, norm, err, daily, weekly, out, enc, tried, paceVars>>

\* Variant that leaves out the rows without a date.
daily_table_dated(frame) ==
    LET g == SelectSeq(frame, LAMBDA r : r.date # NaT)
    IN  [i \in 1..Len(g) |->
            [date |-> strftime(g[i].date), type |-> g[i].type,
             dist_km |-> g[i].dist_km, pace_minpkm |-> g[i].pace_minpkm,
             hr_avg |-> g[i].hr_avg, rpe |-> g[i].rpe, notes |-> g[i].notes]]

\* Lines 323-324
daily_table(frame) ==
    [i \in 1..Len(frame) |->
        [date |-> strftime(frame[i].date), type |-> frame[i].type,
         dist_km |-> frame[i].dist_km, pace_minpkm |-> frame[i].pace_minpkm,
         hr_avg |-> frame[i].hr_avg, rpe |-> frame[i].rpe,
         notes |-> frame[i].notes]]

\* Variant that puts the latest week first.
RECURSIVE sort_by_week_desc(_)
sort_by_week_desc(S) ==
    IF S = {} THEN <<>>
    ELSE LET first == CHOOSE r \in S : \A q \in S : ~TsLess(r.week, q.week)
         IN  <<first>> \o sort_by_week_desc(S \ {first})

\* The records of a set in ascending order of their week.
RECURSIVE sort_by_week(_)
sort_by_week(S) ==
    IF S = {} THEN <<>>
    ELSE LET first == CHOOSE r \in S : \A q \in S : ~TsLess(q.week, r.week)
         IN  <<first>> \o sort_by_week(S \ {first})

\* Series.count(): the values that are not missing.
count_dates(s) == Len(SelectSeq(s, LAMBDA d : d # NaT))

\* Variant that counts the distances of a week instead of its dates.
weekly_groups_count_dist(frame) ==
    {LET g == SelectSeq(frame, LAMBDA r : strftime(r.week) = k)
     IN  [week |-> g[1].week,
          dist_km |-> sum(Column(g, "dist_km")),
          runs |-> Len(dropna(Column(g, "dist_km"))),
          pace_minpkm |-> mean(Column(g, "pace_minpkm")),
          rpe |-> mean(Column(g, "rpe"))] :
        k \in {strftime(frame[i].week) : i \in 1..Len(frame)} \ {<<>>}}

\* Lines 325-329: group by the week's text (rows with a missing key are
\* left out), aggregate, sort by week, format the week.
weekly_groups(frame) ==
    {LET g == SelectSeq(frame, LAMBDA r : strftime(r.week) = k)
     IN  [week |-> g[1].week,
          dist_km |-> sum(Column(g, "dist_km")),
          runs |-> count_dates(Column(g, "date")),
          pace_minpkm |-> mean(Column(g, "pace_minpkm")),
          rpe |-> mean(Column(g, "rpe"))] :
        k \in {strftime(frame[i].week) : i \in 1..Len(frame)} \ {<<>>}}

weekly_table(frame) ==
    LET w == sort_by_week(weekly_groups(frame))
    IN  [i \in 1..Len(w) |-> [w[i] EXCEPT !.week = strftime(w[i].week)]]

\* Lines 323-329
Aggregate ==
    /\ pc = "aggregate"
    /\ daily' = daily_table(df)
    /\ weekly' = weekly_table(df)
    /\ pc' = "write"
    /\ UNCHANGED <<src, raw, df, norm, err, out, enc, tried, paceVars>>

\* Lines 331-335: out.write_text(...)
Write ==
    /\ pc = "write"
    /\ out' = <<[daily |-> daily, weekly |-> weekly]>>
    /\ pc' = "done"
    /\ UNCHANGED <<src, raw, df, norm, err, daily, weekly, enc, tried, paceVars>>

Next ==
    \/ Ingest
    \/ CheckSchema
    \/ Normalize
    \/ ImputePace
    \/ ImputeHr
    \/ ImputeCadence
    \/ ImputeRpe
    \/ Aggregate
    \/ Write

Spec == Init /\ [][Next]_vars

SpecImpute == InitImpute /\ [][Next]_vars

SpecFallback == InitFallback /\ [][Next]_vars

SpecAgg == InitAgg /\ [][Next]_vars

SpecSchema == InitSchema /\ [][Next]_vars

SpecRetain == InitRetain /\ [][Next]_vars

SpecFrame == InitFrame /\ [][Next]_vars

SpecIngest == InitIngest /\ [][Next]_vars

----------------------------------------------------------------------------
(* parse_pace_mmss_to_minutes on its own *)

MainIdle ==
    /\ pc = "idle"
    /\ src = NoFile /\ raw = EmptyFrame
    /\ df = <<>> /\ norm = <<>> /\ err = <<>>
    /\ daily = <<>> /\ weekly = <<>> /\ out = <<>>
    /\ enc = 1 /\ tried = <<>>

\* The characters free texts are made of.
TextAlphabet == {"1", "7", ":", ".", "e", "i", "n", "f", "a", " "}

\* The text of n in one or two digits: as it is, or zero-padded.
Fmt(n, padded) == IF padded THEN Pad(NatStr(n), 2) ELSE NatStr(n)

\* The argument is "m:s" for some minutes and seconds, or any short text.
InitPace ==
    /\ MainIdle
    /\ ppc = "call"
    /\ pret = NaN
    /\ \/ \E m \in 0..MaxMinute, s \in 0..MaxSecond, pm \in BOOLEAN, ps \in BOOLEAN :
              /\ px = Fmt(m, pm) \o <<":">> \o Fmt(s, ps)
              /\ pform = [form |-> "mmss", m |-> m, s |-> s]
       \/ \E n \in 0..MaxTextLen :
              \E txt \in [1..n -> TextAlphabet] :
                  /\ px = txt
                  /\ pform = [form |-> "text", m |-> 0, s |-> 0]

ParsePace ==
    /\ ppc = "call"
    /\ pret' = parse_pace_mmss_to_minutes(px)
    /\ ppc' = "ret"
    /\ UNCHANGED <<px, pform, mainVars>>

NextPace == ParsePace

SpecPace == InitPace /\ [][NextPace]_vars

----------------------------------------------------------------------------
(* Properties of the Imputer stage (lines 314-321) *)

ImputedFields == {"pace_minpkm", "hr_avg", "cadence_spm", "rpe"}

\* The Imputer stage has run.
AfterImputer == pc \in {"aggregate", "write", "done"}

\* The rows of frame that have the type of row i.
GroupOf(frame, i) == SelectSeq(frame, LAMBDA r : r.type = frame[i].type)

\* No row of row i's type has a value in field f.
GroupEmpty(frame, f, i) == \A j \in 1..Len(frame) :
    frame[j].type = frame[i].type => isna(frame[j][f])

\* C1: imputation totality.  Once the Imputer stage has run, a field (pace,
\* heart rate, cadence, rpe) that had a value in at least one row after
\* normalization has a value in every row, whatever the rows' types.
ImputationTotality ==
    AfterImputer =>
        \A f \in ImputedFields :
            (\E i \in 1..Len(norm) : ~isna(norm[i][f]))
                => \A i \in 1..Len(df) : ~isna(df[i][f])

\* A row whose type is absent and whose group has no pace at all was filled
\* because another group has one.
ImputationTotalityWitness ==
    /\ AfterImputer
    /\ \E i, j \in 1..Len(df) :
           /\ norm[i].type = Txt_nan
           /\ isna(norm[i].pace_minpkm)
           /\ GroupEmpty(norm, "pace_minpkm", i)
           /\ ~isna(norm[j].pace_minpkm)
           /\ ~isna(df[i].pace_minpkm)

\* C2: imputation is a no-op on present values.  Once the Imputer stage has
\* run (the rpe default table included), every value of an imputed field that
\* was present after normalization is the value it was.
ImputationKeepsPresent ==
    AfterImputer =>
        /\ Len(df) = Len(norm)
        /\ \A i \in 1..Len(df) : \A f \in ImputedFields :
               ~isna(norm[i][f]) => df[i][f] = norm[i][f]

\* A row of a type of the default table keeps its own rpe (which is not the
\* table's) while another row of that type is given the table's.
ImputationKeepsPresentWitness ==
    /\ AfterImputer
    /\ \E i, j \in 1..Len(df) :
           /\ norm[i].type = Txt_easy /\ norm[j].type = Txt_easy
           /\ ~isna(norm[i].rpe) /\ norm[i].rpe # Int2Num(5)
           /\ df[i].rpe = norm[i].rpe
           /\ isna(norm[j].rpe) /\ df[j].rpe = Int2Num(5)

\* C3: group-then-global fallback.  A row whose field is missing and whose
\* type group has no value of that field ends with the median of all the values
\* of the field that were present before imputation, the values the group
\* step filled in for other rows not entering it.
GlobalFallbackOverOriginal ==
    AfterImputer =>
        \A f \in {"pace_minpkm", "hr_avg", "cadence_spm"} :
            \A i \in 1..Len(df) :
                (isna(norm[i][f]) /\ GroupEmpty(norm, f, i))
                    => df[i][f] = median(Column(norm, f))

\* The default table as the specification gives it.
TableTypes ==
    {Txt_easy, Txt_long, Txt_tempo, Txt_interval, Txt_race, Txt_test, Txt_rest}

TableValue(ty) ==
    Int2Num(CASE ty = Txt_easy -> 5 [] ty = Txt_long -> 6 [] ty = Txt_tempo -> 7
              [] ty = Txt_interval -> 8 [] ty = Txt_race -> 9 [] ty = Txt_test -> 6
              [] ty = Txt_rest -> 2)

\* The rpe column with the table's values in place, before the medians.
RpeAfterTable ==
    [i \in 1..Len(norm) |->
        IF isna(norm[i].rpe) /\ norm[i].type \in TableTypes
        THEN TableValue(norm[i].type) ELSE norm[i].rpe]

\* C4: rpe default table.  A row with missing rpe whose type is in the table
\* ends the Imputer stage with the table's value for its type; one whose type
\* is not in the table ends with the median of its type group, or without one
\* with the median of the whole column, both taken over the originally present
\* and the table-defaulted values alike.
RpeDefaultTable ==
    AfterImputer =>
        \A i \in 1..Len(df) :
            isna(norm[i].rpe) =>
                IF norm[i].type \in TableTypes
                THEN df[i].rpe = TableValue(norm[i].type)
                ELSE IF ~GroupEmpty(norm, "rpe", i)
                THEN df[i].rpe = median(Column(GroupOf(norm, i), "rpe"))
                ELSE df[i].rpe = median(RpeAfterTable)

----------------------------------------------------------------------------
(* Properties of parse_pace_mmss_to_minutes (lines 23-32) *)

\* C5: pace grammar.  For minutes m and seconds s written in one or two
\* digits, "m:s" parses to m + s/60 when s is below 60 and to missing when s
\* is 60 or more.
PaceGrammar ==
    (ppc = "ret" /\ pform.form = "mmss") =>
        IF pform.s < 60
        THEN pret = Num(60 * pform.m + pform.s, 60, 0)
        ELSE isna(pret)

\* "59:59" was parsed, to 59 minutes and 59 seconds.
PaceGrammarWitness ==
    /\ ppc = "ret" /\ pform.form = "mmss"
    /\ pform.m = 59 /\ pform.s = 59
    /\ px = <<"5", "9", ":", "5", "9">>
    /\ pret = Num(3599, 60, 0)

\* A plain decimal: digits with at most one point, after an optional sign.
IsPlainDecimal(x) ==
    LET u == Unsigned(strip(x))
    IN  /\ \E i \in 1..Len(u) : u[i] \in Digit
        /\ \A i \in 1..Len(u) : u[i] \in Digit \cup {"."}
        /\ Cardinality(Find(u, ".")) <= 1

\* Minutes and seconds in one or two digits around one colon, seconds below 60.
IsMinutesSeconds(x) ==
    \E m \in 0..99, s \in 0..59 : \E pm \in BOOLEAN, ps \in BOOLEAN :
        \E a \in 1..Len(x) :
            /\ x[a] = ":"
            /\ strip(SubSeq(x, 1, a - 1)) = Fmt(m, pm)
            /\ strip(SubSeq(x, a + 1, Len(x))) = Fmt(s, ps)

\* C6: only two forms are accepted.  A text that is neither a plain decimal
\* nor minutes:seconds with seconds below 60 gives a missing pace, so a pace
\* that is present is a finite number.
PaceOnlyTwoForms ==
    (ppc = "ret" /\ ~isna(pret)) =>
        /\ IsPlainDecimal(px) \/ IsMinutesSeconds(px)
        /\ IsFinite(pret)

----------------------------------------------------------------------------
(* Properties of the week key and the weekly table *)

\* The field normalization has run.
AfterNormalizer == pc \notin {"read", "check", "normalize", "failed", "idle"}

\* 2024-01-01 was a Monday.
IsMonday(day) == (day - Ordinal(2024, 1, 1)) % 7 = 0

\* C7: Monday-aligned week key.  The week of a record with a date is the
\* Monday (at midnight) on or before the date and at most six days before
\* it; the week of a record without a date is missing.
MondayWeekKey ==
    AfterNormalizer =>
        \A i \in 1..Len(df) :
            IF df[i].date = NaT THEN df[i].week = NaT
            ELSE /\ IsMonday(df[i].week.day)
                 /\ df[i].week.secs = 0
                 /\ df[i].week.day <= df[i].date.day
                 /\ df[i].date.day <= df[i].week.day + 6

\* A Monday, the following Sunday (at 10:30) and the next Monday: the first
\* two share the first Monday, the third is its own week.
MondayWeekKeyWitness ==
    /\ AfterNormalizer
    /\ Len(df) = 3
    /\ df[1].date = [day |-> Ordinal(2024, 1, 1), secs |-> 0]
    /\ df[2].date = [day |-> Ordinal(2024, 1, 7), secs |-> 37800]
    /\ df[3].date = [day |-> Ordinal(2024, 1, 8), secs |-> 0]
    /\ df[1].week = df[1].date
    /\ df[2].week = df[1].date
    /\ df[3].week = df[3].date

\* The rows whose week is written as text k.
WeekRows(k) == {i \in 1..Len(df) : df[i].date # NaT /\ strftime(df[i].week) = k}

RECURSIVE DistanceOf(_)
DistanceOf(S) ==
    IF S = {} THEN Int2Num(0)
    ELSE LET i == CHOOSE j \in S : TRUE
         IN  IF isna(df[i].dist_km) THEN DistanceOf(S \ {i})
             ELSE Add(df[i].dist_km, DistanceOf(S \ {i}))

\* C8: weekly sum with gaps.  In every record of the weekly table the
\* distance is the sum of the distances present in the week's rows (0 when
\* none is) and the run count is the number of the week's rows.
WeeklySumWithGaps ==
    pc \in {"write", "done"} =>
        \A k \in 1..Len(weekly) :
            /\ weekly[k].dist_km = DistanceOf(WeekRows(weekly[k].week))
            /\ weekly[k].runs = Cardinality(WeekRows(weekly[k].week))

\* One week holds a row of 2.5 km and a row without a distance, another week
\* holds only a row without a distance.
WeeklySumWithGapsWitness ==
    /\ pc = "done"
    /\ Len(weekly) = 2
    /\ weekly[1].dist_km = Num(25, 1, -1) /\ weekly[1].runs = 2
    /\ weekly[2].dist_km = Int2Num(0) /\ weekly[2].runs = 1
    /\ \E i \in WeekRows(weekly[1].week) : isna(df[i].dist_km)

----------------------------------------------------------------------------
(* Properties of the schema check (lines 299-301) *)

\* The required columns the source header lacks.
Missing == {c \in FullHeader : c \notin src.columns}

\* C9: schema violation.  When a required column is absent the run fails
\* with an error naming exactly the absent required columns, no row has been
\* parsed, sorted or imputed and nothing is written; when none is absent the
\* run does not fail, whatever other columns the header has.
SchemaViolation ==
    /\ (Missing # {} /\ pc \notin {"read", "check"}) =>
           /\ pc = "failed"
           /\ Len(err) = 1
           /\ err[1].type = "ValueError"
           /\ Range(err[1].miss) = Missing
           /\ Len(err[1].miss) = Cardinality(Missing)
           /\ raw = read_csv(src)
           /\ df = <<>> /\ norm = <<>>
           /\ daily = <<>> /\ weekly = <<>> /\ out = <<>>
    /\ Missing = {} => (pc # "failed" /\ err = <<>>)

\* A file with a row and an extra column but no rpe column failed, naming rpe.
SchemaViolationWitness ==
    /\ pc = "failed"
    /\ "extra" \in src.columns
    /\ Len(src.rows) = 1
    /\ err = <<[type |-> "ValueError", miss |-> <<"rpe">>]>>
    /\ out = <<>>

----------------------------------------------------------------------------
(* Properties of the field normalization (lines 303-312) *)

\* C10: type normalization.  The type of a record is its source cell trimmed
\* and lowercased, and the empty text when the source cell is absent.
TypeNormalization ==
    AfterNormalizer =>
        \A j \in 1..Len(src.rows) :
            \E i \in 1..Len(norm) :
                /\ norm[i].date = parse_date(src.rows[j].date)
                /\ norm[i].type =
                       IF src.rows[j].type = <<>> THEN <<>>
                       ELSE lower(strip(src.rows[j].type))

----------------------------------------------------------------------------
(* Properties of the daily table (lines 311, 323-324) *)

\* The tables have been built.
AfterAggregator == pc \in {"write", "done"}

\* C11: notes defaulting.  The notes of every daily record are a text, and
\* the record of a row whose source notes are missing has the empty text for
\* its notes (a row with notes keeps them).
NotesDefaulting ==
    AfterAggregator =>
        /\ Len(daily) = Len(src.rows)
        /\ \A j \in 1..Len(src.rows) :
               \E i \in 1..Len(daily) :
                   /\ daily[i].date = strftime(parse_date(src.rows[j].date))
                   /\ daily[i].notes = src.rows[j].notes

----------------------------------------------------------------------------
(* Properties of the weekly table (lines 325-329) *)

\* A text of the form YYYY-MM-DD.
IsIsoDate(t) ==
    /\ Len(t) = 10
    /\ t[5] = "-" /\ t[8] = "-"
    /\ \A i \in {1, 2, 3, 4, 6, 7, 9, 10} : t[i] \in Digit
    /\ DigitsVal(SubSeq(t, 6, 7)) \in 1..12
    /\ DigitsVal(SubSeq(t, 9, 10)) \in 1..31

\* C12: weekly records never carry null keys.  In every record of the
\* weekly table the week is an ISO date text, the distance is a number and the
\* run count is an integer of at least 1, also when rows have no date and
\* when no row of a week has a distance.
WeeklyKeysNeverNull ==
    AfterAggregator =>
        \A k \in 1..Len(weekly) :
            /\ IsIsoDate(weekly[k].week)
            /\ IsFinite(weekly[k].dist_km)
            /\ weekly[k].runs \in Nat
            /\ weekly[k].runs >= 1

\* A file with a row without a date and a week none of whose rows has a
\* distance: that week's record has distance 0 and no pace.
WeeklyKeysNeverNullWitness ==
    /\ pc = "done"
    /\ \E i \in 1..Len(df) : df[i].date = NaT
    /\ \E k \in 1..Len(weekly) :
           /\ \A i \in 1..Len(df) :
                  strftime(df[i].week) = weekly[k].week => isna(df[i].dist_km)
           /\ weekly[k].dist_km = Int2Num(0)
           /\ weekly[k].runs = 1
           /\ isna(weekly[k].pace_minpkm)

\* The calendar dates among the date cells, which are written as ISO dates.
GoodDateCells ==
    {<<"2", "0", "2", "4", "-", "0", "1", "-", "0", "1">>, <<"2", "0", "2", "4", "-", "0", "1", "-", "0", "8">>}

\* What the daily record of a source row holds for its date and distance.
ExpectedDaily(r) ==
    [date |-> IF r.date \in GoodDateCells THEN r.date ELSE <<>>,
     dist_km |-> IF r.distance_km = <<"2", ".", "5">> THEN Num(25, 1, -1) ELSE NaN]

DailyKey(d) == [date |-> d.date, dist_km |-> d.dist_km]

\* An ISO date as a number that orders as the dates do.
IsoOrder(t) ==
    10000 * DigitsVal(SubSeq(t, 1, 4)) + 100 * DigitsVal(SubSeq(t, 6, 7))
        + DigitsVal(SubSeq(t, 9, 10))

----------------------------------------------------------------------------
(* Properties of detect_and_read_csv (lines 12-16) *)

\* The attempts in the order the specification gives: UTF-8 with an optional
\* byte-order mark, the three legacy encodings, the plain default read.
FallbackOrder == <<"utf-8-sig", "cp949", "euc-kr", "ISO-8859-1", "default">>

IngestorOrderInv ==
    /\ Len(tried) <= Len(FallbackOrder)
    /\ \A k \in 1..Len(tried) : tried[k] = FallbackOrder[k]
    /\ \A k \in 1..(Len(tried) - 1) : tried[k] \notin src.decodes
    /\ pc = "read" => (err = <<>> /\ raw = EmptyFrame)
    /\ pc \notin {"read", "failed"} =>
           /\ tried # <<>>
           /\ tried[Len(tried)] \in src.decodes
           /\ raw = read_csv(src)
           /\ err = <<>>
    /\ pc = "failed" =>
           /\ tried = FallbackOrder
           /\ src.decodes = {}
           /\ err = <<[type |-> "Exception", miss |-> <<>>]>>
           /\ raw = EmptyFrame /\ out = <<>>

\* C14: ingestor fallback order.  The attempts are made in the fixed order
\* UTF-8 with optional byte-order mark, cp949, euc-kr, ISO-8859-1, plain
\* default read; every attempt but the last one made has failed, so the frame
\* returned is that of the first attempt that succeeds and the default read is
\* made only after the four encodings failed; no attempt follows a success;
\* the run fails with the read error only when the default read failed too.
IngestorFallbackOrder ==
    /\ []IngestorOrderInv
    /\ [][pc # "read" => tried' = tried]_vars

\* The first encoding failed and the second succeeded: the third, which
\* would have succeeded too, was never tried, and the run went on to the end.
IngestorFallbackOrderWitness ==
    /\ pc = "done"
    /\ Len(src.rows) = 1
    /\ tried = <<"utf-8-sig", "cp949">>
    /\ "euc-kr" \in src.decodes
    /\ "default" \in src.decodes
    /\ raw = read_csv(src)

----------------------------------------------------------------------------
(* Properties of a whole run (lines 298-335) *)

\* The source has the eight columns and no row.
HeaderOnly == FullHeader \subseteq src.columns /\ src.rows = <<>>

\* C15: empty input.  A run on a source with the eight-column header and no
\* row never fails and never stops before its end: no error is raised, every
\* stage before the end can take its step, and the daily and the weekly table
\* are empty, in the run and in what is written.
EmptyInput ==
    HeaderOnly =>
        /\ pc # "failed" /\ err = <<>>
        /\ df = <<>> /\ daily = <<>> /\ weekly = <<>>
        /\ pc # "done" => ENABLED Next
        /\ pc = "done" => out = <<[daily |-> <<>>, weekly |-> <<>>]>>

\* A run on a header-only file has reached its end and written two empty
\* tables.
EmptyInputWitness ==
    /\ pc = "done"
    /\ src.columns = FullHeader /\ src.rows = <<>>
    /\ raw.rows = <<>>
    /\ out = <<[daily |-> <<>>, weekly |-> <<>>]>>

----------------------------------------------------------------------------
(* Properties of impute_with_medians (lines 38-44) *)

\* m is the median of the values of v that are not missing: the middle one in
\* ascending order, or the mean of the two middle ones.
IsMedianOf(m, v) ==
    LET w == dropna(v)
        n == Len(w)
    IN  /\ n > 0
        /\ \E p \in Permutations(1..n) :
               /\ \A a, b \in 1..n : a < b => ~Less(w[p[b]], w[p[a]])
               /\ m = IF n % 2 = 1 THEN w[p[(n + 1) \div 2]]
                      ELSE Half(Add(w[p[n \div 2]], w[p[n \div 2 + 1]]))

\* C16: group-median step.  A row whose pace, heart rate or cadence is
\* missing and whose type group has at least one value of that field ends the
\* Imputer stage with the median of the values the group had before
\* imputation, the mean of the two middle ones for an even count.
GroupMedianStep ==
    AfterImputer =>
        \A f \in {"pace_minpkm", "hr_avg", "cadence_spm"} :
            \A i \in 1..Len(df) :
                (isna(norm[i][f]) /\ ~GroupEmpty(norm, f, i))
                    => IsMedianOf(df[i][f], Column(GroupOf(norm, i), f))

\* Two rows of one type have paces 4.5 and 9 and a third row of that type has
\* none: it is given 6.75.
GroupMedianStepWitness ==
    /\ AfterImputer
    /\ Len(df) = 3
    /\ \A i \in 1..3 : norm[i].type = Txt_easy
    /\ \E i, j, k \in 1..3 :
           /\ norm[i].pace_minpkm = Num(45, 1, -1)
           /\ norm[j].pace_minpkm = Int2Num(9)
           /\ isna(norm[k].pace_minpkm)
           /\ df[k].pace_minpkm = Num(675, 1, -2)

\* No row has a value in field f after normalization.
FieldEmpty(f) == \A i \in 1..Len(norm) : isna(norm[i][f])

\* C17: graceful degradation.  When pace, heart rate or cadence has no value
\* in any row, the Imputer stage raises no error and leaves that field missing
\* in every row, and every other imputed field that has a value somewhere has
\* one in every row.
GracefulDegradation ==
    AfterImputer =>
        \A f \in {"pace_minpkm", "hr_avg", "cadence_spm"} :
            FieldEmpty(f) =>
                /\ pc # "failed" /\ err = <<>>
                /\ Len(df) = Len(norm)
                /\ \A i \in 1..Len(df) : isna(df[i][f])
                /\ \A g \in ImputedFields \ {f} :
                       ~FieldEmpty(g) => \A i \in 1..Len(df) : ~isna(df[i][g])

\* No row has a pace or a cadence and one row of three has a heart rate: after
\* the Imputer stage no row has a pace and every row has that heart rate.
GracefulDegradationWitness ==
    /\ AfterImputer
    /\ Len(df) = 3
    /\ FieldEmpty("pace_minpkm") /\ FieldEmpty("cadence_spm")
    /\ Cardinality({i \in 1..3 : isna(norm[i].hr_avg)}) = 2
    /\ \A i \in 1..3 : isna(df[i].pace_minpkm) /\ df[i].hr_avg = Int2Num(150)
    /\ \E i \in 1..3 : norm[i].type # Txt_easy

----------------------------------------------------------------------------
(* Properties of the Imputer stage as a whole (lines 314-321) *)

\* The fields the Imputer stage is not to touch.
FrameFields == {"date", "type", "dist_km", "notes", "week"}

\* The field the step main() is about to take imputes.
ImputerTarget ==
    CASE pc = "impute_pace" -> "pace_minpkm"
      [] pc = "impute_hr" -> "hr_avg"
      [] pc = "impute_cadence" -> "cadence_spm"
      [] pc = "impute_rpe" -> "rpe"

\* A step of the Imputer stage keeps the rows and changes a value only if it
\* is of the step's own field and was missing.
ImputerStepFrame ==
    pc \in {"impute_pace", "impute_hr", "impute_cadence", "impute_rpe"} =>
        /\ Len(df') = Len(df)
        /\ \A i \in 1..Len(df) :
               \A g \in FrameFields \cup ImputedFields :
                   df'[i][g] # df[i][g] => (g = ImputerTarget /\ isna(df[i][g]))

\* After the stage every row is the row normalization put at its place, in
\* all the fields that are not imputed.
ImputerStageFrame ==
    AfterImputer =>
        /\ Len(df) = Len(norm)
        /\ \A i \in 1..Len(df) : \A g \in FrameFields : df[i][g] = norm[i][g]

\* C18: Imputer frame.  Each imputation step changes only missing entries of
\* its own field, and across the Imputer stage the date, type, distance,
\* notes and week of every row, the number of rows and their order are
\* unchanged: a distance that is absent stays absent and one that is zero
\* stays zero.
ImputerFrame ==
    /\ [][ImputerStepFrame]_vars
    /\ []ImputerStageFrame

\* A row with distance 0 and a row without a distance, one with a pace and no
\* rpe, the other with an rpe and no pace, both of a type outside the default
\* table: each is given the other's value and the distances are as they were.
ImputerFrameWitness ==
    /\ AfterImputer
    /\ Len(df) = 2
    /\ \E i, j \in 1..2 :
           /\ norm[i].dist_km = Int2Num(0) /\ df[i].dist_km = Int2Num(0)
           /\ isna(norm[j].dist_km) /\ isna(df[j].dist_km)
           /\ norm[i].type = <<"x">> /\ norm[j].type = <<"x">>
           /\ norm[i].pace_minpkm = Int2Num(9) /\ isna(norm[i].rpe)
           /\ isna(norm[j].pace_minpkm) /\ norm[j].rpe = Int2Num(3)
           /\ df[i].pace_minpkm = Int2Num(9) /\ df[i].rpe = Int2Num(3)
           /\ df[j].pace_minpkm = Int2Num(9) /\ df[j].rpe = Int2Num(3)

----------------------------------------------------------------------------
(* Properties of the weekly grouping (lines 34-36, 325-329) *)

\* The date cells that are dates.
ParsableDateCells ==
    {<<"2", "0", "2", "4", "-", "0", "1", "-", "0", "1">>, <<"2", "0", "2", "4", "-", "0", "1", "-", "0", "7", " ", "1", "0", ":", "3", "0">>, <<"2", "0", "2", "4", "-", "0", "1", "-", "0", "8">>}

\* The rows of the frame that have a date.
Dated == {i \in 1..Len(df) : df[i].date # NaT}

\* The Monday on or before the date of row i, as an ISO date text
\* (2024-01-01 was a Monday).
MondayText(i) ==
    strftime([day |-> df[i].date.day - ((df[i].date.day - Ordinal(2024, 1, 1)) % 7),
              secs |-> 0])

RECURSIVE RunsTotal(_)
RunsTotal(w) == IF w = <<>> THEN 0 ELSE Head(w).runs + RunsTotal(Tail(w))

\* C19: weekly partition.  The weekly table has one record for each Monday
\* that is the week of some dated row and no other, in strictly ascending
\* order of week; the runs of a record are the dated rows of its Monday, so
\* that a dated row is counted once and a row without a date never, and the
\* runs add up to the number of source rows whose date can be parsed.
WeeklyPartition ==
    AfterAggregator =>
        /\ {weekly[k].week : k \in 1..Len(weekly)} = {MondayText(i) : i \in Dated}
        /\ Len(weekly) = Cardinality({MondayText(i) : i \in Dated})
        /\ \A a, b \in 1..Len(weekly) :
               a < b => IsoOrder(weekly[a].week) < IsoOrder(weekly[b].week)
        /\ \A k \in 1..Len(weekly) :
               weekly[k].runs = Cardinality({i \in Dated : MondayText(i) = weekly[k].week})
        /\ RunsTotal(weekly) = Cardinality({j \in 1..Len(src.rows) :
                                               src.rows[j].date \in ParsableDateCells})

\* The file has a Monday, then the Sunday before it, then a date that cannot
\* be parsed: the weekly table has the Sunday's week and then the Monday's,
\* with one run each.
WeeklyPartitionWitness ==
    /\ pc = "done"
    /\ Len(src.rows) = 3
    /\ src.rows[1].date = <<"2", "0", "2", "4", "-", "0", "1", "-", "0", "8">>
    /\ src.rows[2].date = <<"2", "0", "2", "4", "-", "0", "1", "-", "0", "7", " ", "1", "0", ":", "3", "0">>
    /\ src.rows[3].date = <<"2", "0", "2", "4", "-", "0", "2", "-", "3", "0">>
    /\ Len(weekly) = 2
    /\ weekly[1].week = <<"2", "0", "2", "4", "-", "0", "1", "-", "0", "1">>
    /\ weekly[2].week = <<"2", "0", "2", "4", "-", "0", "1", "-", "0", "8">>
    /\ weekly[1].runs = 1 /\ weekly[2].runs = 1

=============================================================================
